---- MODULE Spec2Model ----
(***************************************************************************)
(* Order validation workflow of order-validation-agent.                    *)
(*                                                                         *)
(* src/src/tools/validation_tools.py : the catalog (MOCK_CUSTOMERS,        *)
(*   MOCK_PRODUCTS) and the three rule functions.                          *)
(* src/src/agents/order_validator.py : the graph nodes, the routing        *)
(*   functions, the graph and the entry point validate_order.              *)
(*                                                                         *)
(* Conventions of the translation                                          *)
(*  - a Python dict is a TLA+ record (a function of its keys); the empty   *)
(*    dict is EmptyDict, Python's None is the record None;                 *)
(*  - a list is a sequence;                                                *)
(*  - amounts of money are integers counting cents (1200.0 is 120000):     *)
(*    all catalog amounts are whole numbers and quantities are integers,   *)
(*    so the float products and sums of the code are exact; the only float *)
(*    rounding that matters, the one-cent price comparison, is modelled by *)
(*    FloatDiffExceedsCent;                                                *)
(*  - an f-string is a record holding the template and the values put in   *)
(*    it (a value formatted with :.2f is its number of cents).             *)
(***************************************************************************)
EXTENDS Integers, Sequences, FiniteSets, TLC

VARIABLES
    MOCK_CUSTOMERS,   \* module-level dict of validation_tools.py
    MOCK_PRODUCTS,    \* module-level dict of validation_tools.py
    pc,               \* where the running validate_order call is
    args,             \* arguments of the running / last validate_order call
    fault,            \* the unexpected failure the environment raises in this call
    state,            \* the OrderState threaded through the graph
    result,           \* what validate_order returned
    ref,              \* a remembered earlier call: its arguments and its result
    tool,             \* a direct invocation of a rule function and its verdict
    path,             \* the nodes the running call has entered, in order
    peer              \* a second validate_order call running at the same time

vars == <<MOCK_CUSTOMERS, MOCK_PRODUCTS, pc, args, fault, state, result, ref, tool,
          path, peer>>

\* ------------------------------------------------------------------ bounds

\* longest item list of an order
MaxItems == 2

\* longest item list of an order validated while the environment raises failures
MaxFaultItems == 1

\* longest item list of an order whose run is followed to its end under fairness
MaxLiveItems == 1

\* ------------------------------------------------------------ Python values

None == [None |-> TRUE]

EmptyDict == [k \in {} |-> k]

\* d.get(key, default)
Get(d, key, default) == IF key \in DOMAIN d THEN d[key] ELSE default

\* ------------------------------------------------------------------ catalog

CustomerTable ==
    [CUST001 |-> [id |-> "CUST001", name |-> "Acme Corporation",
                  email |-> "contact@acme.com", status |-> "active",
                  credit_limit |-> 1000000, current_balance |-> 200000],
     CUST002 |-> [id |-> "CUST002", name |-> "TechStart Inc",
                  email |-> "info@techstart.com", status |-> "active",
                  credit_limit |-> 500000, current_balance |-> 450000],
     CUST003 |-> [id |-> "CUST003", name |-> "Global Solutions",
                  email |-> "sales@globalsolutions.com", status |-> "inactive",
                  credit_limit |-> 1500000, current_balance |-> 0],
     CUST004 |-> [id |-> "CUST004", name |-> "Innovation Labs",
                  email |-> "hello@innovationlabs.com", status |-> "active",
                  credit_limit |-> 800000, current_balance |-> 100000],
     CUST005 |-> [id |-> "CUST005", name |-> "Enterprise Systems",
                  email |-> "contact@enterprise.com", status |-> "active",
                  credit_limit |-> 2000000, current_balance |-> 1500000]]

ProductTable ==
    [PROD001 |-> [id |-> "PROD001", name |-> "Laptop Pro 15", price |-> 120000,
                  stock |-> 50, category |-> "electronics"],
     PROD002 |-> [id |-> "PROD002", name |-> "Wireless Mouse", price |-> 2500,
                  stock |-> 200, category |-> "accessories"],
     PROD003 |-> [id |-> "PROD003", name |-> "USB-C Hub", price |-> 4500,
                  stock |-> 100, category |-> "accessories"],
     PROD004 |-> [id |-> "PROD004", name |-> "Monitor 27 inch", price |-> 35000,
                  stock |-> 30, category |-> "electronics"],
     PROD005 |-> [id |-> "PROD005", name |-> "Mechanical Keyboard", price |-> 12000,
                  stock |-> 0, category |-> "accessories"],
     PROD006 |-> [id |-> "PROD006", name |-> "Webcam HD", price |-> 8000,
                  stock |-> 75, category |-> "electronics"]]

\* ------------------------------------------------------------------- faults

NoFault == [kind |-> "none", at |-> "none"]

\* the description str(e) of a failure raised by the environment
FailureText == "unexpected failure"

\* the rule function invoked by `node` raises inside the node's try block
ToolRaises(node) == fault = [kind |-> "tool", at |-> node]

\* `node` raises outside any try block of the graph's nodes
NodeRaises(node) == fault = [kind |-> "escape", at |-> node]

\* ----------------------------------------------------------- rule functions

\* MOCK_CUSTOMERS.get(customer_id)
FindCustomer(customer_id) ==
    IF customer_id \in DOMAIN MOCK_CUSTOMERS THEN MOCK_CUSTOMERS[customer_id] ELSE None

\* variant: an id the catalog does not hold is looked up as the first product
FindProduct_fallback(product_id) ==
    IF product_id \in DOMAIN MOCK_PRODUCTS THEN MOCK_PRODUCTS[product_id]
    ELSE MOCK_PRODUCTS["PROD001"]

\* MOCK_PRODUCTS.get(product_id)
FindProduct(product_id) ==
    IF product_id \in DOMAIN MOCK_PRODUCTS THEN MOCK_PRODUCTS[product_id] ELSE None

\* variant: every customer the catalog holds counts as active
is_active_any_status(customer) == "status" \in DOMAIN customer

\* is_active = customer.get("status") == "active"
is_active_of(customer) == "status" \in DOMAIN customer /\ customer.status = "active"

\* validate_customer_exists(customer_id)
validate_customer_exists(customer_id) ==
    IF customer_id = ""
    THEN [valid |-> FALSE, exists |-> FALSE, active |-> FALSE,
          customer_data |-> None,
          message |-> [text |-> "ID de cliente no proporcionado"]]
    ELSE LET customer == FindCustomer(customer_id) IN
         IF customer = None
         THEN [valid |-> FALSE, exists |-> FALSE, active |-> FALSE,
               customer_data |-> None,
               message |-> [text |-> "Cliente {customer_id} no existe en el sistema",
                            customer_id |-> customer_id]]
         ELSE LET is_active == is_active_of(customer) IN
              IF ~is_active
              THEN [valid |-> FALSE, exists |-> TRUE, active |-> FALSE,
                    customer_data |-> customer,
                    message |-> [text |-> "Cliente {customer_id} existe pero esta inactivo",
                                 customer_id |-> customer_id]]
              ELSE [valid |-> TRUE, exists |-> TRUE, active |-> TRUE,
                    customer_data |-> customer,
                    message |-> [text |-> "Cliente {customer_id} valido y activo",
                                 customer_id |-> customer_id]]

\* variant: the comparison is strict, an order of exactly the available credit fails
has_sufficient_credit_strict(available_credit, order_amount) ==
    available_credit > order_amount

\* has_sufficient_credit = available_credit >= order_amount
has_sufficient_credit_of(available_credit, order_amount) ==
    available_credit >= order_amount

\* variant: the balance the customer already owes is not taken off the limit
available_credit_ignoring_balance(credit_limit, current_balance) == credit_limit

\* available_credit = credit_limit - current_balance
available_credit_of(credit_limit, current_balance) == credit_limit - current_balance

\* variant: the deficit is taken the other way round
deficit_of_reversed(order_amount, available_credit) == available_credit - order_amount

\* deficit = order_amount - available_credit
deficit_of(order_amount, available_credit) == order_amount - available_credit

\* check_customer_credit(customer_id, order_amount)
check_customer_credit(customer_id, order_amount) ==
    LET customer == FindCustomer(customer_id) IN
    IF customer = None
    THEN [has_credit |-> FALSE, credit_limit |-> 0, current_balance |-> 0,
          available_credit |-> 0, required_amount |-> order_amount,
          message |-> [text |-> "Cliente {customer_id} no encontrado",
                       customer_id |-> customer_id]]
    ELSE LET credit_limit == Get(customer, "credit_limit", 0)
             current_balance == Get(customer, "current_balance", 0)
             available_credit == available_credit_of(credit_limit, current_balance)
             has_sufficient_credit == has_sufficient_credit_of(available_credit, order_amount)
         IN  IF has_sufficient_credit
             THEN [has_credit |-> TRUE, credit_limit |-> credit_limit,
                   current_balance |-> current_balance,
                   available_credit |-> available_credit,
                   required_amount |-> order_amount,
                   message |-> [text |-> "Credito suficiente. Disponible: ${available_credit:.2f}, Requerido: ${order_amount:.2f}",
                                available_credit |-> available_credit,
                                order_amount |-> order_amount]]
             ELSE LET deficit == deficit_of(order_amount, available_credit) IN
                  [has_credit |-> FALSE, credit_limit |-> credit_limit,
                   current_balance |-> current_balance,
                   available_credit |-> available_credit,
                   required_amount |-> order_amount,
                   message |-> [text |-> "Credito insuficiente. Disponible: ${available_credit:.2f}, Requerido: ${order_amount:.2f}, Falta: ${deficit:.2f}",
                                available_credit |-> available_credit,
                                order_amount |-> order_amount,
                                deficit |-> deficit]]

\* the actual prices for which the double |provided - actual| of a one-cent
\* difference is above the double 0.01: 25.01 - 25.0 = 0.010000000000001563 is,
\* 1200.01 - 1200.0 = 0.009999999999990905 is not
OneCentExceeds == {2500, 8000, 12000}

\* abs(provided_price - actual_price) > 0.01, in double arithmetic
FloatDiffExceedsCent(provided_price, actual_price) ==
    LET d == IF provided_price >= actual_price
             THEN provided_price - actual_price
             ELSE actual_price - provided_price
    IN  IF d = 1 THEN actual_price \in OneCentExceeds ELSE d > 1

\* variant: the line is charged at the price the caller asserted
item_total_asserted(item, actual_price, quantity) ==
    IF "unit_price" \in DOMAIN item THEN item.unit_price * quantity
    ELSE actual_price * quantity

\* item_total = actual_price * quantity
item_total_of(item, actual_price, quantity) == actual_price * quantity

\* variant: the asserted price is compared before the stock is looked at
CheckItem_price_before_stock(item, acc) ==
    LET product_id == item.product_id
        quantity == Get(item, "quantity", 0)
        product == FindProduct(product_id)
    IN
    IF product = None
    THEN [acc EXCEPT !.invalid_items = Append(@,
             [product_id |-> product_id, quantity |-> quantity,
              reason |-> [text |-> "Producto {product_id} no existe en el catalogo",
                          product_id |-> product_id]])]
    ELSE IF quantity <= 0
    THEN [acc EXCEPT !.invalid_items = Append(@,
             [product_id |-> product_id, quantity |-> quantity,
              reason |-> [text |-> "Cantidad debe ser mayor a 0"]])]
    ELSE LET actual_price == Get(product, "price", 0) IN
    IF "unit_price" \in DOMAIN item
       /\ FloatDiffExceedsCent(item.unit_price, actual_price)
    THEN [acc EXCEPT !.invalid_items = Append(@,
             [product_id |-> product_id, quantity |-> quantity,
              provided_price |-> item.unit_price,
              actual_price |-> actual_price,
              reason |-> [text |-> "Precio incorrecto. Proporcionado: ${provided_price:.2f}, Actual: ${actual_price:.2f}",
                          provided_price |-> item.unit_price,
                          actual_price |-> actual_price]])]
    ELSE LET available_stock == Get(product, "stock", 0) IN
    IF quantity > available_stock
    THEN [acc EXCEPT !.invalid_items = Append(@,
             [product_id |-> product_id, quantity |-> quantity,
              available_stock |-> available_stock,
              reason |-> [text |-> "Stock insuficiente. Solicitado: {quantity}, Disponible: {available_stock}",
                          quantity |-> quantity,
                          available_stock |-> available_stock]])]
    ELSE LET item_total == item_total_of(item, actual_price, quantity) IN
         [acc EXCEPT !.total_amount = @ + item_total,
                     !.validated_items = Append(@,
             [product_id |-> product_id,
              product_name |-> Get(product, "name", None),
              quantity |-> quantity,
              unit_price |-> actual_price,
              item_total |-> item_total,
              category |-> Get(product, "category", None)])]

\* the quantity of product_id in the lines accepted so far
RECURSIVE QuantityAccepted(_, _)
QuantityAccepted(validated_items, product_id) ==
    IF validated_items = <<>> THEN 0
    ELSE (IF Head(validated_items).product_id = product_id
          THEN Head(validated_items).quantity ELSE 0)
         + QuantityAccepted(Tail(validated_items), product_id)

\* variant: the lines accepted so far for the same product are taken off the
\* stock a line is checked against
available_stock_remaining(product, acc) ==
    Get(product, "stock", 0) - QuantityAccepted(acc.validated_items, product.id)

\* available_stock = product.get("stock", 0)
available_stock_of(product, acc) == Get(product, "stock", 0)

\* variant: a quantity equal to the stock is refused as well
stock_insufficient_at_limit(quantity, available_stock) == quantity >= available_stock

\* if quantity > available_stock
stock_insufficient(quantity, available_stock) == quantity > available_stock

\* one turn of the for loop of validate_order_items; acc holds validated_items,
\* invalid_items and total_amount
CheckItem(item, acc) ==
    LET product_id == item.product_id
        quantity == Get(item, "quantity", 0)
        product == FindProduct(product_id)
    IN
    IF product = None
    THEN [acc EXCEPT !.invalid_items = Append(@,
             [product_id |-> product_id, quantity |-> quantity,
              reason |-> [text |-> "Producto {product_id} no existe en el catalogo",
                          product_id |-> product_id]])]
    ELSE IF quantity <= 0
    THEN [acc EXCEPT !.invalid_items = Append(@,
             [product_id |-> product_id, quantity |-> quantity,
              reason |-> [text |-> "Cantidad debe ser mayor a 0"]])]
    ELSE LET available_stock == available_stock_of(product, acc) IN
    IF stock_insufficient(quantity, available_stock)
    THEN [acc EXCEPT !.invalid_items = Append(@,
             [product_id |-> product_id, quantity |-> quantity,
              available_stock |-> available_stock,
              reason |-> [text |-> "Stock insuficiente. Solicitado: {quantity}, Disponible: {available_stock}",
                          quantity |-> quantity,
                          available_stock |-> available_stock]])]
    ELSE LET actual_price == Get(product, "price", 0) IN
    IF "unit_price" \in DOMAIN item
       /\ FloatDiffExceedsCent(item.unit_price, actual_price)
    THEN [acc EXCEPT !.invalid_items = Append(@,
             [product_id |-> product_id, quantity |-> quantity,
              provided_price |-> item.unit_price,
              actual_price |-> actual_price,
              reason |-> [text |-> "Precio incorrecto. Proporcionado: ${provided_price:.2f}, Actual: ${actual_price:.2f}",
                          provided_price |-> item.unit_price,
                          actual_price |-> actual_price]])]
    ELSE LET item_total == item_total_of(item, actual_price, quantity) IN
         [acc EXCEPT !.total_amount = @ + item_total,
                     !.validated_items = Append(@,
             [product_id |-> product_id,
              product_name |-> Get(product, "name", None),
              quantity |-> quantity,
              unit_price |-> actual_price,
              item_total |-> item_total,
              category |-> Get(product, "category", None)])]

\* variant: the loop stops one line short of the end of the list
RECURSIVE ItemsLoop_short(_, _, _)
ItemsLoop_short(items, idx, acc) ==
    IF idx >= Len(items) THEN acc
    ELSE ItemsLoop_short(items, idx + 1, CheckItem(items[idx], acc))

\* the for loop of validate_order_items from line idx on
RECURSIVE ItemsLoop(_, _, _)
ItemsLoop(items, idx, acc) ==
    IF idx > Len(items) THEN acc
    ELSE ItemsLoop(items, idx + 1, CheckItem(items[idx], acc))

\* variant: the verdict looks at the accepted lines only
is_valid_some_accepted(invalid_items, validated_items) == Len(validated_items) > 0

\* is_valid = len(invalid_items) == 0 and len(validated_items) > 0
is_valid_of(invalid_items, validated_items) ==
    Len(invalid_items) = 0 /\ Len(validated_items) > 0

\* validate_order_items(items)
validate_order_items(items) ==
    IF items = <<>>
    THEN [valid |-> FALSE, total_amount |-> 0, validated_items |-> <<>>,
          invalid_items |-> <<>>,
          message |-> [text |-> "No se proporcionaron items en la orden"]]
    ELSE LET acc == ItemsLoop(items, 1,
                      [validated_items |-> <<>>, invalid_items |-> <<>>,
                       total_amount |-> 0])
             is_valid == is_valid_of(acc.invalid_items, acc.validated_items)
         IN  [valid |-> is_valid,
              total_amount |-> acc.total_amount,
              validated_items |-> acc.validated_items,
              invalid_items |-> acc.invalid_items,
              message |->
                 IF is_valid
                 THEN [text |-> "Todos los {n} items son validos. Total: ${total_amount:.2f}",
                       n |-> Len(acc.validated_items),
                       total_amount |-> acc.total_amount]
                 ELSE [text |-> "Validacion fallida: {n} items invalidos de {m} totales",
                       n |-> Len(acc.invalid_items),
                       m |-> Len(items)]]

\* -------------------------------------------------------------- graph nodes

\* variant: the three requirements are tested in an if / elif chain, which
\* stops at the first one violated
parse_order_first_only(s) ==
    LET errors == IF s.order_id = "" THEN <<[text |-> "ID de orden no proporcionado"]>>
                  ELSE IF s.customer_id = "" THEN <<[text |-> "ID de cliente no proporcionado"]>>
                  ELSE IF s.items = <<>> THEN <<[text |-> "No se proporcionaron items en la orden"]>>
                  ELSE <<>>
    IN  [s EXCEPT !.errors = errors,
                  !.warnings = <<>>,
                  !.status = IF errors # <<>> THEN "error" ELSE "validating",
                  !.approved = FALSE,
                  !.total_amount = 0,
                  !.validation_details = EmptyDict,
                  !.message = IF errors # <<>>
                              THEN [text |-> "Errores en estructura de orden: {errors}",
                                    errors |-> errors]
                              ELSE [text |-> "Orden parseada, iniciando validaciones"]]

\* parse_order(state); items is always a list here, so the two elif branches
\* (not a list, a list of length 0 that is not falsy) cannot be taken
parse_order(s) ==
    LET e1 == IF s.order_id = "" THEN <<[text |-> "ID de orden no proporcionado"]>> ELSE <<>>
        e2 == IF s.customer_id = "" THEN <<[text |-> "ID de cliente no proporcionado"]>> ELSE <<>>
        e3 == IF s.items = <<>> THEN <<[text |-> "No se proporcionaron items en la orden"]>> ELSE <<>>
        errors == e1 \o e2 \o e3
    IN  [s EXCEPT !.errors = errors,
                  !.warnings = <<>>,
                  !.status = IF errors # <<>> THEN "error" ELSE "validating",
                  !.approved = FALSE,
                  !.total_amount = 0,
                  !.validation_details = EmptyDict,
                  !.message = IF errors # <<>>
                              THEN [text |-> "Errores en estructura de orden: {errors}",
                                    errors |-> errors]
                              ELSE [text |-> "Orden parseada, iniciando validaciones"]]

\* variant: a customer that is not valid is stored in the verdict but its
\* message is not appended to errors
validate_customer_node_silent(s) ==
    IF ToolRaises("validate_customer")
    THEN LET error_msg == [text |-> "Error al validar cliente: {e}", e |-> FailureText] IN
         [s EXCEPT !.errors = Append(@, error_msg),
                   !.customer_validation = [valid |-> FALSE, message |-> error_msg]]
    ELSE LET res == validate_customer_exists(s.customer_id) IN
         [s EXCEPT !.customer_validation = res]

\* validate_customer_node(state)
validate_customer_node(s) ==
    IF ToolRaises("validate_customer")
    THEN LET error_msg == [text |-> "Error al validar cliente: {e}", e |-> FailureText] IN
         [s EXCEPT !.errors = Append(@, error_msg),
                   !.customer_validation = [valid |-> FALSE, message |-> error_msg]]
    ELSE LET res == validate_customer_exists(s.customer_id) IN
         [s EXCEPT !.customer_validation = res,
                   !.errors = IF ~res.valid THEN Append(@, res.message) ELSE @]

\* variant: the entries of the invalid items are added last line first
RECURSIVE InvalidItemErrors_reversed(_)
InvalidItemErrors_reversed(invalid_items) ==
    IF invalid_items = <<>> THEN <<>>
    ELSE InvalidItemErrors_reversed(Tail(invalid_items))
         \o <<[text |-> "Item {product_id}: {reason}",
                product_id |-> Head(invalid_items).product_id,
                reason |-> Head(invalid_items).reason]>>

\* the error entries validate_items_node adds for the invalid items
RECURSIVE InvalidItemErrors(_)
InvalidItemErrors(invalid_items) ==
    IF invalid_items = <<>> THEN <<>>
    ELSE <<[text |-> "Item {product_id}: {reason}",
            product_id |-> Head(invalid_items).product_id,
            reason |-> Head(invalid_items).reason]>>
         \o InvalidItemErrors(Tail(invalid_items))

\* variant: the total the rule computed is stored in the verdict only, the
\* state's total_amount is left as parse_order set it
validate_items_node_no_total(s) ==
    IF ToolRaises("validate_items")
    THEN LET error_msg == [text |-> "Error al validar items: {e}", e |-> FailureText] IN
         [s EXCEPT !.errors = Append(@, error_msg),
                   !.items_validation = [valid |-> FALSE, message |-> error_msg]]
    ELSE LET res == validate_order_items(s.items) IN
         [s EXCEPT !.items_validation = res,
                   !.errors = IF ~res.valid
                              THEN Append(@, res.message)
                                   \o InvalidItemErrors(Get(res, "invalid_items", <<>>))
                              ELSE @]

\* variant: the total the rule computed is stored only when the verdict is
\* valid
validate_items_node_total_if_valid(s) ==
    IF ToolRaises("validate_items")
    THEN LET error_msg == [text |-> "Error al validar items: {e}", e |-> FailureText] IN
         [s EXCEPT !.errors = Append(@, error_msg),
                   !.items_validation = [valid |-> FALSE, message |-> error_msg]]
    ELSE LET res == validate_order_items(s.items) IN
         [s EXCEPT !.items_validation = res,
                   !.total_amount = IF res.valid THEN Get(res, "total_amount", 0) ELSE @,
                   !.errors = IF ~res.valid
                              THEN Append(@, res.message)
                                   \o InvalidItemErrors(Get(res, "invalid_items", <<>>))
                              ELSE @]

\* validate_items_node(state)
validate_items_node(s) ==
    IF ToolRaises("validate_items")
    THEN LET error_msg == [text |-> "Error al validar items: {e}", e |-> FailureText] IN
         [s EXCEPT !.errors = Append(@, error_msg),
                   !.items_validation = [valid |-> FALSE, message |-> error_msg]]
    ELSE LET res == validate_order_items(s.items) IN
         [s EXCEPT !.items_validation = res,
                   !.total_amount = Get(res, "total_amount", 0),
                   !.errors = IF ~res.valid
                              THEN Append(@, res.message)
                                   \o InvalidItemErrors(Get(res, "invalid_items", <<>>))
                              ELSE @]

\* variant: a failure of the credit rule is stored in the verdict but not
\* appended to errors
check_credit_node_silent(s) ==
    IF ToolRaises("check_credit")
    THEN LET error_msg == [text |-> "Error al verificar credito: {e}", e |-> FailureText] IN
         [s EXCEPT !.credit_validation = [has_credit |-> FALSE, message |-> error_msg]]
    ELSE LET res == check_customer_credit(s.customer_id, s.total_amount) IN
         [s EXCEPT !.credit_validation = res,
                   !.errors = IF ~res.has_credit THEN Append(@, res.message) ELSE @]

\* check_credit_node(state)
check_credit_node(s) ==
    IF ToolRaises("check_credit")
    THEN LET error_msg == [text |-> "Error al verificar credito: {e}", e |-> FailureText] IN
         [s EXCEPT !.errors = Append(@, error_msg),
                   !.credit_validation = [has_credit |-> FALSE, message |-> error_msg]]
    ELSE LET res == check_customer_credit(s.customer_id, s.total_amount) IN
         [s EXCEPT !.credit_validation = res,
                   !.errors = IF ~res.has_credit THEN Append(@, res.message) ELSE @]

\* variant: the order is marked approved in status and details, the approved
\* flag of the state is left as it was
process_order_node_unflagged(s) ==
    [s EXCEPT !.status = "approved",
              !.message = [text |-> "Orden {order_id} aprobada exitosamente. Total: ${total_amount:.2f}",
                           order_id |-> s.order_id,
                           total_amount |-> s.total_amount],
              !.validation_details =
                  [customer |-> s.customer_validation,
                   items |-> s.items_validation,
                   credit |-> s.credit_validation,
                   summary |-> [order_id |-> s.order_id,
                                customer_id |-> s.customer_id,
                                total_amount |-> s.total_amount,
                                items_count |-> Len(Get(s.items_validation,
                                                        "validated_items", <<>>)),
                                approved |-> TRUE]]]

\* variant: the summary counts the lines under the key invalid_items
process_order_node_counts_invalid(s) ==
    [s EXCEPT !.status = "approved",
              !.approved = TRUE,
              !.message = [text |-> "Orden {order_id} aprobada exitosamente. Total: ${total_amount:.2f}",
                           order_id |-> s.order_id,
                           total_amount |-> s.total_amount],
              !.validation_details =
                  [customer |-> s.customer_validation,
                   items |-> s.items_validation,
                   credit |-> s.credit_validation,
                   summary |-> [order_id |-> s.order_id,
                                customer_id |-> s.customer_id,
                                total_amount |-> s.total_amount,
                                items_count |-> Len(Get(s.items_validation,
                                                        "invalid_items", <<>>)),
                                approved |-> TRUE]]]

\* process_order_node(state); the catalog is not touched
process_order_node(s) ==
    [s EXCEPT !.status = "approved",
              !.approved = TRUE,
              !.message = [text |-> "Orden {order_id} aprobada exitosamente. Total: ${total_amount:.2f}",
                           order_id |-> s.order_id,
                           total_amount |-> s.total_amount],
              !.validation_details =
                  [customer |-> s.customer_validation,
                   items |-> s.items_validation,
                   credit |-> s.credit_validation,
                   summary |-> [order_id |-> s.order_id,
                                customer_id |-> s.customer_id,
                                total_amount |-> s.total_amount,
                                items_count |-> Len(Get(s.items_validation,
                                                        "validated_items", <<>>)),
                                approved |-> TRUE]]]

\* variant: the handler adds an entry of its own to errors after it has
\* counted them
error_handler_node_appends(s) ==
    LET error_count == Len(s.errors)
        errors == Append(s.errors, [text |-> "Orden {order_id} rechazada",
                                    order_id |-> s.order_id])
    IN
    [s EXCEPT !.status = "rejected",
              !.approved = FALSE,
              !.errors = errors,
              !.message = [text |-> "Orden {order_id} rechazada. {error_count} error(es) encontrado(s).",
                           order_id |-> s.order_id,
                           error_count |-> error_count],
              !.validation_details =
                  [customer |-> s.customer_validation,
                   items |-> s.items_validation,
                   credit |-> s.credit_validation,
                   errors |-> errors,
                   warnings |-> s.warnings,
                   summary |-> [order_id |-> s.order_id,
                                customer_id |-> s.customer_id,
                                total_amount |-> s.total_amount,
                                approved |-> FALSE,
                                error_count |-> error_count]]]

\* error_handler_node(state); state.get("customer_validation", {}) finds the
\* key, so a slot that was never filled is rendered as None
error_handler_node(s) ==
    LET error_count == Len(s.errors) IN
    [s EXCEPT !.status = "rejected",
              !.approved = FALSE,
              !.message = [text |-> "Orden {order_id} rechazada. {error_count} error(es) encontrado(s).",
                           order_id |-> s.order_id,
                           error_count |-> error_count],
              !.validation_details =
                  [customer |-> s.customer_validation,
                   items |-> s.items_validation,
                   credit |-> s.credit_validation,
                   errors |-> s.errors,
                   warnings |-> s.warnings,
                   summary |-> [order_id |-> s.order_id,
                                customer_id |-> s.customer_id,
                                total_amount |-> s.total_amount,
                                approved |-> FALSE,
                                error_count |-> error_count]]]

\* ------------------------------------------------------------------ routing

\* variant: a parse failure leaves the graph without passing the error handler
should_continue_after_parse_to_end(s) ==
    IF s.status = "validating" THEN "validate_customer" ELSE "END"

\* variant: the customer check runs whatever the parse step found
should_continue_after_parse_always(s) == "validate_customer"

\* the lambda of the conditional edge leaving parse_order
should_continue_after_parse(s) ==
    IF s.status = "validating" THEN "validate_customer" ELSE "error_handler"

\* variant: an invalid customer leaves the graph without passing the error handler
should_continue_after_customer_to_end(s) ==
    IF s.customer_validation = None THEN "raise"
    ELSE IF Get(s.customer_validation, "valid", FALSE)
         THEN "validate_items" ELSE "END"

\* variant: the item check runs whatever the customer verdict is
should_continue_after_customer_always(s) ==
    IF s.customer_validation = None THEN "raise" ELSE "validate_items"

\* should_continue_after_customer(state); None has no get, the call raises
should_continue_after_customer(s) ==
    IF s.customer_validation = None THEN "raise"
    ELSE IF Get(s.customer_validation, "valid", FALSE)
         THEN "validate_items" ELSE "error_handler"

\* variant: the credit check runs whatever the item verdict is
should_continue_after_items_always(s) ==
    IF s.items_validation = None THEN "raise" ELSE "check_credit"

\* variant: an order whose items are not valid is sent through the item check
\* again
should_continue_after_items_retry(s) ==
    IF s.items_validation = None THEN "raise"
    ELSE IF Get(s.items_validation, "valid", FALSE)
         THEN "check_credit" ELSE "validate_items"

\* should_continue_after_items(state)
should_continue_after_items(s) ==
    IF s.items_validation = None THEN "raise"
    ELSE IF Get(s.items_validation, "valid", FALSE)
         THEN "check_credit" ELSE "error_handler"

\* variant: the order is processed whatever the credit verdict is
should_continue_after_credit_always(s) ==
    IF s.credit_validation = None THEN "raise" ELSE "process_order"

\* should_continue_after_credit(state)
should_continue_after_credit(s) ==
    IF s.credit_validation = None THEN "raise"
    ELSE IF Get(s.credit_validation, "has_credit", FALSE)
         THEN "process_order" ELSE "error_handler"

\* ------------------------------------------------------------- entry point

\* initial_state of validate_order(order_id, customer_id, items)
initial_state(a) ==
    [order_id |-> a.order_id,
     customer_id |-> a.customer_id,
     items |-> a.items,
     customer_validation |-> None,
     items_validation |-> None,
     credit_validation |-> None,
     status |-> "pending",
     errors |-> <<>>,
     warnings |-> <<>>,
     total_amount |-> 0,
     approved |-> FALSE,
     message |-> [text |-> ""],
     validation_details |-> EmptyDict]

\* variant: the warnings of the result are read under the key errors
final_result_warnings_from_errors(s) ==
    [status |-> s.status,
     approved |-> s.approved,
     message |-> s.message,
     total_amount |-> s.total_amount,
     errors |-> s.errors,
     warnings |-> s.errors,
     validation_details |-> s.validation_details]

\* the result validate_order builds from the final state of the graph
final_result(s) ==
    [status |-> s.status,
     approved |-> s.approved,
     message |-> s.message,
     total_amount |-> s.total_amount,
     errors |-> s.errors,
     warnings |-> s.warnings,
     validation_details |-> s.validation_details]

\* variant: the except branch reports the failure as a rejection
error_result_rejected(order_id) ==
    LET error_msg == [text |-> "Error critico en validacion de orden {order_id}: {e}",
                      order_id |-> order_id, e |-> FailureText]
    IN  [status |-> "rejected",
         approved |-> FALSE,
         message |-> error_msg,
         total_amount |-> 0,
         errors |-> <<error_msg>>,
         warnings |-> <<>>,
         validation_details |-> EmptyDict]

\* the result validate_order builds in its except branch
error_result(order_id) ==
    LET error_msg == [text |-> "Error critico en validacion de orden {order_id}: {e}",
                      order_id |-> order_id, e |-> FailureText]
    IN  [status |-> "error",
         approved |-> FALSE,
         message |-> error_msg,
         total_amount |-> 0,
         errors |-> <<error_msg>>,
         warnings |-> <<>>,
         validation_details |-> EmptyDict]

\* variant: an approval reserves the order's total on the customer's balance
customers_after_process_order_reserving(s) ==
    [MOCK_CUSTOMERS EXCEPT ![s.customer_id].current_balance = @ + s.total_amount]

\* the customer table once process_order_node has approved an order: no node
\* writes to MOCK_CUSTOMERS
customers_after_process_order(s) == MOCK_CUSTOMERS

\* the stock table once the accepted lines from position idx on are taken out
RECURSIVE TakeFromStock(_, _, _)
TakeFromStock(products, validated_items, idx) ==
    IF idx > Len(validated_items) THEN products
    ELSE LET line == validated_items[idx] IN
         TakeFromStock([products EXCEPT ![line.product_id].stock = @ - line.quantity],
                       validated_items, idx + 1)

\* variant: an approval takes the accepted quantities out of the stock
products_after_process_order_reserving(s) ==
    TakeFromStock(MOCK_PRODUCTS, s.items_validation.validated_items, 1)

\* the product table once process_order_node has approved an order: no node
\* writes to MOCK_PRODUCTS
products_after_process_order(s) == MOCK_PRODUCTS

\* where an edge of the graph leads; a routing function that raised ends the run
\* in the except branch of validate_order
Goto(target) == IF target = "raise" THEN "except" ELSE target

\* ----------------------------------------------------------------- actions

Init ==
    /\ MOCK_CUSTOMERS = CustomerTable
    /\ MOCK_PRODUCTS = ProductTable
    /\ pc = "idle"
    /\ args = None
    /\ fault = NoFault
    /\ state = None
    /\ result = None
    /\ ref = None
    /\ tool = None
    /\ path = <<>>
    /\ peer = None

\* no call is running and the caller holds no result
Idle == pc = "idle" /\ result = None /\ tool = None

\* validate_order is called: the initial state is built and the graph entered
Call(a, f) ==
    /\ Idle
    /\ args' = a
    /\ fault' = f
    /\ state' = initial_state(a)
    /\ result' = None
    /\ pc' = "parse_order"
    /\ path' = <<>>
    /\ ref' = IF ref = None THEN ref ELSE [ref EXCEPT !.later = TRUE]
    /\ UNCHANGED <<MOCK_CUSTOMERS, MOCK_PRODUCTS, tool, peer>>

\* a node that raises outside its try block: app.invoke raises
Raise ==
    /\ pc' = "except"
    /\ UNCHANGED <<MOCK_CUSTOMERS, MOCK_PRODUCTS, args, fault, state, result, ref, tool, peer>>

ParseOrder ==
    /\ pc = "parse_order"
    /\ path' = Append(path, "parse_order")
    /\ IF NodeRaises("parse_order") THEN Raise
       ELSE LET s == parse_order(state) IN
            /\ state' = s
            /\ pc' = Goto(should_continue_after_parse(s))
            /\ UNCHANGED <<MOCK_CUSTOMERS, MOCK_PRODUCTS, args, fault, result, ref, tool, peer>>

ValidateCustomer ==
    /\ pc = "validate_customer"
    /\ path' = Append(path, "validate_customer")
    /\ IF NodeRaises("validate_customer") THEN Raise
       ELSE LET s == validate_customer_node(state) IN
            /\ state' = s
            /\ pc' = Goto(should_continue_after_customer(s))
            /\ UNCHANGED <<MOCK_CUSTOMERS, MOCK_PRODUCTS, args, fault, result, ref, tool, peer>>

ValidateItems ==
    /\ pc = "validate_items"
    /\ path' = Append(path, "validate_items")
    /\ IF NodeRaises("validate_items") THEN Raise
       ELSE LET s == validate_items_node(state) IN
            /\ state' = s
            /\ pc' = Goto(should_continue_after_items(s))
            /\ UNCHANGED <<MOCK_CUSTOMERS, MOCK_PRODUCTS, args, fault, result, ref, tool, peer>>

CheckCredit ==
    /\ pc = "check_credit"
    /\ path' = Append(path, "check_credit")
    /\ IF NodeRaises("check_credit") THEN Raise
       ELSE LET s == check_credit_node(state) IN
            /\ state' = s
            /\ pc' = Goto(should_continue_after_credit(s))
            /\ UNCHANGED <<MOCK_CUSTOMERS, MOCK_PRODUCTS, args, fault, result, ref, tool, peer>>

ProcessOrder ==
    /\ pc = "process_order"
    /\ path' = Append(path, "process_order")
    /\ IF NodeRaises("process_order") THEN Raise
       ELSE /\ state' = process_order_node(state)
            /\ MOCK_CUSTOMERS' = customers_after_process_order(state)
            /\ MOCK_PRODUCTS' = products_after_process_order(state)
            /\ pc' = "END"
            /\ UNCHANGED <<args, fault, result, ref, tool, peer>>

ErrorHandler ==
    /\ pc = "error_handler"
    /\ path' = Append(path, "error_handler")
    /\ IF NodeRaises("error_handler") THEN Raise
       ELSE /\ state' = error_handler_node(state)
            /\ pc' = "END"
            /\ UNCHANGED <<MOCK_CUSTOMERS, MOCK_PRODUCTS, args, fault, result, ref, tool, peer>>

\* app.invoke returned: final_state is bound to the state the graph ended in
\* and validate_order returns its projection
Return ==
    /\ pc = "END"
    /\ result' = final_result(state)
    /\ pc' = "idle"
    /\ ref' = IF ref # None /\ ref.args # args /\ state.approved
              THEN [ref EXCEPT !.between = TRUE] ELSE ref
    /\ UNCHANGED <<MOCK_CUSTOMERS, MOCK_PRODUCTS, args, fault, state, tool, path, peer>>

\* app.invoke raised: final_state is never bound and validate_order returns the
\* result of its except branch
ReturnError ==
    /\ pc = "except"
    /\ result' = error_result(args.order_id)
    /\ state' = None
    /\ pc' = "idle"
    /\ UNCHANGED <<MOCK_CUSTOMERS, MOCK_PRODUCTS, args, fault, ref, tool, path, peer>>

\* the caller keeps the call that just returned, to compare later calls with
\* it; later: another call was made since, between: a call with other arguments
\* approved an order since
Remember ==
    /\ pc = "idle"
    /\ result # None
    /\ ref # [args |-> args, result |-> result, later |-> FALSE, between |-> FALSE]
    /\ ref' = [args |-> args, result |-> result, later |-> FALSE, between |-> FALSE]
    /\ UNCHANGED <<MOCK_CUSTOMERS, MOCK_PRODUCTS, pc, args, fault, state, result, tool, path, peer>>

\* the caller is done with what the last call returned
Forget ==
    /\ pc = "idle"
    /\ result # None \/ tool # None
    /\ args' = None
    /\ fault' = NoFault
    /\ result' = None
    /\ tool' = None
    /\ state' = None
    /\ path' = <<>>
    /\ UNCHANGED <<MOCK_CUSTOMERS, MOCK_PRODUCTS, pc, ref, peer>>

\* a rule function invoked directly, as the tests do
InvokeCustomer(customer_id) ==
    /\ Idle
    /\ tool' = [name |-> "validate_customer_exists",
                customer_id |-> customer_id,
                result |-> validate_customer_exists(customer_id)]
    /\ UNCHANGED <<MOCK_CUSTOMERS, MOCK_PRODUCTS, pc, args, fault, state, result, ref, path, peer>>

InvokeCredit(customer_id, order_amount) ==
    /\ Idle
    /\ tool' = [name |-> "check_customer_credit",
                customer_id |-> customer_id,
                order_amount |-> order_amount,
                result |-> check_customer_credit(customer_id, order_amount)]
    /\ UNCHANGED <<MOCK_CUSTOMERS, MOCK_PRODUCTS, pc, args, fault, state, result, ref, path, peer>>

InvokeItems(items) ==
    /\ Idle
    /\ tool' = [name |-> "validate_order_items",
                items |-> items,
                result |-> validate_order_items(items)]
    /\ UNCHANGED <<MOCK_CUSTOMERS, MOCK_PRODUCTS, pc, args, fault, state, result, ref, path, peer>>

\* the id of the catalog record the held result refers to: customer_data of the
\* customer verdict is the dict stored in MOCK_CUSTOMERS itself, and the verdict
\* is handed on by reference into validation_details; "" when there is none
HeldCustomer ==
    IF /\ pc = "idle"
       /\ result # None
       /\ state # None
       /\ "customer" \in DOMAIN result.validation_details
       /\ result.validation_details.customer # None
       /\ "customer_data" \in DOMAIN result.validation_details.customer
       /\ result.validation_details.customer.customer_data # None
    THEN result.validation_details.customer.customer_data.id
    ELSE ""

\* the caller assigns to the status key of the customer_data found in the
\* result it holds: the dict is shared by the result, the final state of the
\* graph and the catalog
CallerModifies(status) ==
    /\ HeldCustomer # ""
    /\ MOCK_CUSTOMERS[HeldCustomer].status # status
    /\ MOCK_CUSTOMERS' = [MOCK_CUSTOMERS EXCEPT ![HeldCustomer].status = status]
    /\ result' = [result EXCEPT
                      !.validation_details.customer.customer_data.status = status]
    /\ state' = [state EXCEPT
                     !.customer_validation.customer_data.status = status,
                     !.validation_details.customer.customer_data.status = status]
    /\ UNCHANGED <<MOCK_PRODUCTS, pc, args, fault, ref, tool, path, peer>>

\* the node function the graph registers under `node`
NodeResult(node, s) ==
    CASE node = "parse_order" -> parse_order(s)
      [] node = "validate_customer" -> validate_customer_node(s)
      [] node = "validate_items" -> validate_items_node(s)
      [] node = "check_credit" -> check_credit_node(s)
      [] node = "process_order" -> process_order_node(s)
      [] node = "error_handler" -> error_handler_node(s)

\* the edge of the graph taken when `node` has returned state s
NodeNext(node, s) ==
    CASE node = "parse_order" -> Goto(should_continue_after_parse(s))
      [] node = "validate_customer" -> Goto(should_continue_after_customer(s))
      [] node = "validate_items" -> Goto(should_continue_after_items(s))
      [] node = "check_credit" -> Goto(should_continue_after_credit(s))
      [] node = "process_order" -> "END"
      [] node = "error_handler" -> "END"

\* a second thread calls validate_order: it builds its own initial state and
\* its own graph; overlap: the first call was inside its graph at that moment
PeerCall(b) ==
    /\ peer = None
    /\ peer' = [pc |-> "parse_order", args |-> b, state |-> initial_state(b),
                result |-> None, overlap |-> pc \notin {"idle"}]
    /\ UNCHANGED <<MOCK_CUSTOMERS, MOCK_PRODUCTS, pc, args, fault, state, result,
                   ref, tool, path>>

\* the second call runs the node it is at and follows the edge leaving it
PeerStep ==
    /\ peer # None
    /\ peer.pc \in {"parse_order", "validate_customer", "validate_items",
                    "check_credit", "process_order", "error_handler"}
    /\ LET s == NodeResult(peer.pc, peer.state) IN
       /\ peer' = [peer EXCEPT !.state = s, !.pc = NodeNext(peer.pc, s)]
       /\ MOCK_CUSTOMERS' = IF peer.pc = "process_order"
                            THEN customers_after_process_order(peer.state)
                            ELSE MOCK_CUSTOMERS
       /\ MOCK_PRODUCTS' = IF peer.pc = "process_order"
                           THEN products_after_process_order(peer.state)
                           ELSE MOCK_PRODUCTS
    /\ UNCHANGED <<pc, args, fault, state, result, ref, tool, path>>

\* the second call returns the projection of its final state
PeerReturn ==
    /\ peer # None
    /\ peer.pc = "END"
    /\ peer' = [peer EXCEPT !.result = final_result(peer.state), !.pc = "idle"]
    /\ UNCHANGED <<MOCK_CUSTOMERS, MOCK_PRODUCTS, pc, args, fault, state, result,
                   ref, tool, path>>

\* the second thread is done with its result
PeerForget ==
    /\ peer # None
    /\ peer.pc = "idle"
    /\ peer' = None
    /\ UNCHANGED <<MOCK_CUSTOMERS, MOCK_PRODUCTS, pc, args, fault, state, result,
                   ref, tool, path>>

\* ------------------------------------------------------------------ inputs

OrderIds == {"", "ORD-001"}

CustomerIds == DOMAIN CustomerTable \cup {"", "CUST999"}

Line(product_id, quantity, unit_price) ==
    [product_id |-> product_id, quantity |-> quantity, unit_price |-> unit_price]

LineNoPrice(product_id, quantity) ==
    [product_id |-> product_id, quantity |-> quantity]

\* the order lines orders are built from
Lines ==
    {   \* lines of the scenarios of the tests
        Line("PROD001", 2, 120000), Line("PROD002", 5, 2500),
        Line("PROD001", 5, 120000), Line("PROD999", 1, 10000),
        Line("PROD005", 10, 12000), LineNoPrice("PROD005", 1),
        \* totals at a customer's available credit: 500.00 and 7000.00
        LineNoPrice("PROD002", 20), LineNoPrice("PROD004", 20),
        \* at and above the stock of 30
        LineNoPrice("PROD004", 30), LineNoPrice("PROD004", 31),
        \* several rules violated at once
        Line("PROD999", 0, 0), Line("PROD001", 0, 0), Line("PROD001", 51, 0),
        Line("PROD003", -1, 4500),
        \* asserted prices: wrong, and one cent off
        Line("PROD001", 1, 0), Line("PROD001", 1, 120001), Line("PROD002", 1, 2501),
        Line("PROD003", 1, 4499)
    }

SeqsUpTo(S, n) == UNION {[1..k -> S] : k \in 0..n}

Orders(n) == [order_id : OrderIds, customer_id : CustomerIds, items : SeqsUpTo(Lines, n)]

\* the lines of the orders whose runs are followed to their end: one line for
\* every way a line is accepted or rejected
LiveLines ==
    { Line("PROD001", 2, 120000), Line("PROD001", 5, 120000),
      Line("PROD999", 1, 10000), Line("PROD005", 10, 12000),
      LineNoPrice("PROD002", 20), Line("PROD001", 0, 0), Line("PROD001", 1, 0) }

LiveOrders(n) ==
    [order_id : OrderIds, customer_id : CustomerIds, items : SeqsUpTo(LiveLines, n)]

Nodes == {"parse_order", "validate_customer", "validate_items", "check_credit",
          "process_order", "error_handler"}

Faults ==
    {NoFault}
    \cup {[kind |-> "tool", at |-> n] :
             n \in {"validate_customer", "validate_items", "check_credit"}}
    \cup {[kind |-> "escape", at |-> n] : n \in Nodes}

\* the orders of the scenarios of the specification and the tests
ProbeOrders ==
    { [order_id |-> "ORD-001", customer_id |-> "CUST001",
       items |-> <<Line("PROD001", 2, 120000), Line("PROD002", 5, 2500)>>],
      [order_id |-> "ORD-001", customer_id |-> "CUST002",
       items |-> <<Line("PROD001", 5, 120000)>>],
      [order_id |-> "ORD-001", customer_id |-> "CUST002",
       items |-> <<LineNoPrice("PROD002", 20)>>],
      [order_id |-> "ORD-001", customer_id |-> "CUST003",
       items |-> <<Line("PROD001", 2, 120000)>>],
      [order_id |-> "ORD-001", customer_id |-> "CUST004",
       items |-> <<LineNoPrice("PROD004", 20)>>],
      [order_id |-> "ORD-001", customer_id |-> "CUST005",
       items |-> <<Line("PROD001", 2, 120000), Line("PROD001", 2, 120000)>>],
      [order_id |-> "ORD-001", customer_id |-> "CUST001",
       items |-> <<Line("PROD999", 1, 10000), Line("PROD005", 10, 12000)>>],
      [order_id |-> "ORD-001", customer_id |-> "CUST999",
       items |-> <<Line("PROD001", 2, 120000)>>],
      [order_id |-> "", customer_id |-> "CUST001",
       items |-> <<Line("PROD001", 2, 120000)>>],
      [order_id |-> "ORD-001", customer_id |-> "CUST001", items |-> <<>>] }

\* the amounts the credit check is invoked with: around every customer's
\* available credit, to the cent
Amounts ==
    {0} \cup
    {CustomerTable[c].credit_limit - CustomerTable[c].current_balance + d :
        c \in DOMAIN CustomerTable, d \in {-1, 0, 1}}

\* ---------------------------------------------------------- specifications

Workflow ==
    \/ ParseOrder
    \/ ValidateCustomer
    \/ ValidateItems
    \/ CheckCredit
    \/ ProcessOrder
    \/ ErrorHandler
    \/ Return

\* validate_order called again and again, nothing failing unexpectedly
Next ==
    \/ Idle /\ \E a \in Orders(MaxItems) : Call(a, NoFault)
    \/ Workflow
    \/ Forget

Spec == Init /\ [][Next]_vars

\* validate_order called while the environment raises unexpected failures
NextFault ==
    \/ Idle /\ \E a \in Orders(MaxFaultItems), f \in Faults : Call(a, f)
    \/ Workflow
    \/ ReturnError
    \/ Forget

SpecFault == Init /\ [][NextFault]_vars

\* a caller that compares the results of calls with equal arguments
NextIdem ==
    \/ Idle /\ \E a \in ProbeOrders : Call(a, NoFault)
    \/ Workflow
    \/ Remember
    \/ Forget

SpecIdem == Init /\ [][NextIdem]_vars

\* the rule functions invoked directly
NextTools ==
    \/ Idle /\ \E c \in CustomerIds : InvokeCustomer(c)
    \/ Idle /\ \E c \in CustomerIds, x \in Amounts : InvokeCredit(c, x)
    \/ Idle /\ \E i \in SeqsUpTo(Lines, MaxItems) : InvokeItems(i)
    \/ Forget

SpecTools == Init /\ [][NextTools]_vars

\* app.invoke runs the graph in a loop until END and validate_order returns
\* right after it: a step of a run that can be taken is taken
NextLive ==
    \/ Idle /\ \E a \in LiveOrders(MaxLiveItems) : Call(a, NoFault)
    \/ Workflow
    \/ Forget

SpecLive == Init /\ [][NextLive]_vars /\ WF_vars(Workflow)

\* a caller that writes into the customer_data of the results it receives
NextAlias ==
    \/ Idle /\ \E a \in ProbeOrders : Call(a, NoFault)
    \/ Workflow
    \/ Remember
    \/ Forget
    \/ CallerModifies("inactive")

SpecAlias == Init /\ [][NextAlias]_vars

\* two threads calling validate_order at the same time, their node steps
\* interleaved in every order
NextConc ==
    \/ Idle /\ \E a \in ProbeOrders : Call(a, NoFault)
    \/ Workflow
    \/ Forget
    \/ peer = None /\ \E b \in ProbeOrders : PeerCall(b)
    \/ PeerStep
    \/ PeerReturn
    \/ PeerForget

SpecConc == Init /\ [][NextConc]_vars

\* ------------------------------------------------------- notions of the claims

\* validate_order has returned and the caller holds its result
Returned == pc = "idle" /\ result # None

\* the call returned from its try block: app.invoke returned a final state
Completed == Returned /\ state # None

\* the call returned from its except branch: app.invoke raised
Crashed == Returned /\ state = None

\* the structural requirements of an order
ParseOk(a) == a.order_id # "" /\ a.customer_id # "" /\ a.items # <<>>

VerdictValid(v) == v # None /\ "valid" \in DOMAIN v /\ v.valid

VerdictHasCredit(v) == v # None /\ "has_credit" \in DOMAIN v /\ v.has_credit

\* the templates of the error entries the item step and the credit step write
ItemErrorTexts ==
    {"No se proporcionaron items en la orden",
     "Todos los {n} items son validos. Total: ${total_amount:.2f}",
     "Validacion fallida: {n} items invalidos de {m} totales",
     "Item {product_id}: {reason}",
     "Error al validar items: {e}"}

CreditErrorTexts ==
    {"Cliente {customer_id} no encontrado",
     "Credito suficiente. Disponible: ${available_credit:.2f}, Requerido: ${order_amount:.2f}",
     "Credito insuficiente. Disponible: ${available_credit:.2f}, Requerido: ${order_amount:.2f}, Falta: ${deficit:.2f}",
     "Error al verificar credito: {e}"}

NoItemOrCreditError(errors) ==
    \A i \in 1..Len(errors) : errors[i].text \notin ItemErrorTexts \cup CreditErrorTexts

\* the sum over the lines of catalog unit price x quantity
RECURSIVE CatalogTotal(_)
CatalogTotal(items) ==
    IF items = <<>> THEN 0
    ELSE MOCK_PRODUCTS[Head(items).product_id].price * Head(items).quantity
         + CatalogTotal(Tail(items))

\* some line asserts a unit price that is not the catalog price
AssertsOtherPrice(items) ==
    \E i \in 1..Len(items) :
        /\ "unit_price" \in DOMAIN items[i]
        /\ items[i].product_id \in DOMAIN MOCK_PRODUCTS
        /\ items[i].unit_price # MOCK_PRODUCTS[items[i].product_id].price

\* the nodes that ran to their end in a run the graph completed in state s
NodeRan(node, s) ==
    CASE node = "parse_order" -> TRUE
      [] node = "validate_customer" -> s.customer_validation # None
      [] node = "validate_items" -> s.items_validation # None
      [] node = "check_credit" -> s.credit_validation # None
      [] node = "process_order" -> s.status = "approved"
      [] node = "error_handler" -> s.status = "rejected"

\* the verdict slot filled by the step whose rule invocation fails
FaultSlot(s) ==
    CASE fault.at = "validate_customer" -> s.customer_validation
      [] fault.at = "validate_items" -> s.items_validation
      [] fault.at = "check_credit" -> s.credit_validation

\* the flag of a verdict is present and false
NegativeVerdict(v) ==
    IF fault.at = "check_credit"
    THEN "has_credit" \in DOMAIN v /\ ~v.has_credit
    ELSE "valid" \in DOMAIN v /\ ~v.valid

\* ------------------------------------------------------------------- claims

\* C1 (SpecFault): every result validate_order returns has status approved,
\* rejected or error, never pending or validating.
C1_TerminalStatus ==
    Returned => result.status \in {"approved", "rejected", "error"}

\* a run that was in status validating when it was rejected has returned
C1_Witness ==
    /\ Returned
    /\ ParseOk(args)
    /\ args.customer_id = "CUST999"
    /\ result.status = "rejected"

\* C2 (SpecFault): a call that does not crash returns approved exactly when the
\* parse found no violation and the customer verdict is valid and the item
\* verdict is valid and the credit verdict has has_credit; otherwise it returns
\* rejected.
C2_ApprovedIffAllFour ==
    Completed =>
        LET all_four == /\ ParseOk(args)
                        /\ VerdictValid(state.customer_validation)
                        /\ VerdictValid(state.items_validation)
                        /\ VerdictHasCredit(state.credit_validation)
        IN  /\ result.status = "approved" <=> all_four
            /\ ~all_four => result.status = "rejected"

\* CUST001 ordering 2 x PROD001 is approved with total 2400.00
C2_Witness ==
    /\ Completed
    /\ fault = NoFault
    /\ args = [order_id |-> "ORD-001", customer_id |-> "CUST001",
               items |-> <<Line("PROD001", 2, 120000)>>]
    /\ result.status = "approved"
    /\ result.total_amount = 240000

\* C3 (Spec): an order with an empty order_id, an empty customer_id or an empty
\* item list is returned rejected, not approved, with at least one error.
C3_MalformedRejected ==
    Returned /\ ~ParseOk(args) =>
        /\ result.status = "rejected"
        /\ result.approved = FALSE
        /\ result.errors # <<>>

\* an order that lacks only its order_id has been rejected
C3_Witness ==
    /\ Returned
    /\ args = [order_id |-> "", customer_id |-> "CUST001",
               items |-> <<Line("PROD001", 2, 120000)>>]
    /\ result.status = "rejected"
    /\ Len(result.errors) = 1

\* C4 (SpecFault): once the customer verdict is invalid, the run never enters
\* the item step, the credit step or the approval, the item and credit verdict
\* slots stay unset and errors holds no item or credit entry.
C4_CustomerShortCircuit ==
    (state # None /\ state.customer_validation # None
        /\ ~VerdictValid(state.customer_validation)) =>
        /\ pc \notin {"validate_items", "check_credit", "process_order"}
        /\ state.items_validation = None
        /\ state.credit_validation = None
        /\ NoItemOrCreditError(state.errors)
        /\ Returned =>
               /\ result.validation_details.items = None
               /\ result.validation_details.credit = None
               /\ NoItemOrCreditError(result.errors)

\* scenario C: the inactive customer CUST003 with a valid line was rejected
C4_Witness ==
    /\ Completed
    /\ fault = NoFault
    /\ ParseOk(args)
    /\ args.customer_id = "CUST003"
    /\ args.items = <<Line("PROD001", 2, 120000)>>
    /\ state.customer_validation.exists
    /\ ~state.customer_validation.active
    /\ result.status = "rejected"

\* C5 (Spec): when the item verdict is valid, the result's total_amount is the
\* sum over the lines of catalog unit price x quantity, whatever unit prices the
\* caller asserted.
C5_TotalFromCatalog ==
    Completed /\ VerdictValid(state.items_validation) =>
        /\ result.total_amount = CatalogTotal(args.items)
        /\ state.items_validation.total_amount = CatalogTotal(args.items)

\* a line asserting 1200.01 for a product of 1200.00 was validated
C5_Witness ==
    /\ Completed
    /\ VerdictValid(state.items_validation)
    /\ AssertsOtherPrice(args.items)
    /\ result.total_amount > 0

\* C6 (SpecTools): for an existing customer, has_credit is true when the
\* required amount equals limit - balance and false when it is one cent more.
C6_CreditBoundary ==
    (tool # None /\ tool.name = "check_customer_credit"
        /\ tool.customer_id \in DOMAIN MOCK_CUSTOMERS) =>
        LET customer == MOCK_CUSTOMERS[tool.customer_id]
            available == customer.credit_limit - customer.current_balance
        IN  /\ tool.order_amount = available => tool.result.has_credit
            /\ tool.order_amount = available + 1 => ~tool.result.has_credit

\* CUST005 asked for exactly its available 5000.00
C6_Witness ==
    /\ tool # None
    /\ tool.name = "check_customer_credit"
    /\ tool.customer_id = "CUST005"
    /\ tool.order_amount = 500000
    /\ tool.result.has_credit
    /\ tool.result.available_credit = 500000

\* C7 (SpecIdem): a call with the arguments of an earlier call returns the
\* result the earlier call returned, whatever calls were made in between.
C7_SameInputSameResult ==
    (Returned /\ ref # None /\ ref.later /\ ref.args = args) =>
        result = ref.result

\* an approved order was repeated after another order was approved, and
\* approved again
C7_Witness ==
    /\ Returned
    /\ ref # None
    /\ ref.later
    /\ ref.between
    /\ ref.args = args
    /\ result.approved

\* C8 (SpecFault): a failure raised outside the nodes' try blocks ends in the
\* except branch of validate_order, which returns status error, approved false,
\* one error embedding the failure, total 0, no warnings and empty details.
C8_CatchAll ==
    /\ Crashed =>
        /\ result.status = "error"
        /\ result.approved = FALSE
        /\ Len(result.errors) = 1
        /\ result.errors[1].e = FailureText
        /\ result.errors[1].order_id = args.order_id
        /\ result.message = result.errors[1]
        /\ result.total_amount = 0
        /\ result.warnings = <<>>
        /\ result.validation_details = EmptyDict
    /\ (Completed /\ fault.kind = "escape") => ~NodeRan(fault.at, state)
    /\ pc = "except" => fault.kind = "escape"

\* the item step raised outside its try block and the call returned
C8_Witness ==
    /\ Crashed
    /\ fault = [kind |-> "escape", at |-> "validate_items"]
    /\ result.status = "error"

\* C9 (SpecFault): when the rule invocation of a step fails, the step stores a
\* negative verdict whose message carries the failure, the message is the last
\* entry of errors, the run goes to the reject handler and returns rejected; it
\* never reaches the except branch.
C9_ToolFailureRejected ==
    fault.kind = "tool" =>
        /\ pc # "except"
        /\ ~Crashed
        /\ (state # None /\ FaultSlot(state) # None) =>
               LET v == FaultSlot(state) IN
               /\ NegativeVerdict(v)
               /\ v.message.e = FailureText
               /\ state.errors # <<>>
               /\ state.errors[Len(state.errors)] = v.message
               /\ pc \in {"error_handler", "END", "idle"}
               /\ Returned =>
                      /\ result.status = "rejected"
                      /\ result.errors = state.errors

\* the credit rule failed for an order that had passed the other checks
C9_Witness ==
    /\ Completed
    /\ fault = [kind |-> "tool", at |-> "check_credit"]
    /\ VerdictValid(state.items_validation)
    /\ state.credit_validation # None
    /\ result.status = "rejected"

\* C10 (SpecFault): the parse step leaves a malformed order in status error,
\* the reject handler overwrites it, so a call that completes returns rejected
\* for it, and status error is returned only from the except branch.
C10_ErrorOnlyFromCatchAll ==
    /\ (pc = "error_handler" /\ ~ParseOk(args)) => state.status = "error"
    /\ (Completed /\ ~ParseOk(args)) => result.status = "rejected"
    /\ (Returned /\ result.status = "error") => Crashed

\* a malformed order stands at the reject handler in status error
C10_Witness ==
    /\ pc = "error_handler"
    /\ ~ParseOk(args)
    /\ state.status = "error"
    /\ fault = NoFault

\* ------------------------------------------------- notions of the later claims

\* the set of the entries of a sequence
Range(seq) == {seq[i] : i \in DOMAIN seq}

\* a direct invocation of validate_order_items is held
ItemsInvoked == tool # None /\ tool.name = "validate_order_items"

\* a direct invocation of validate_customer_exists is held
CustomerInvoked == tool # None /\ tool.name = "validate_customer_exists"

\* the rule an order line fails first, in the order existence, quantity,
\* stock, price; "none" for a line that passes all four
FirstFailedRule(item) ==
    IF item.product_id \notin DOMAIN MOCK_PRODUCTS THEN "existence"
    ELSE IF item.quantity <= 0 THEN "quantity"
    ELSE IF item.quantity > MOCK_PRODUCTS[item.product_id].stock THEN "stock"
    ELSE IF "unit_price" \in DOMAIN item
            /\ FloatDiffExceedsCent(item.unit_price, MOCK_PRODUCTS[item.product_id].price)
         THEN "price"
    ELSE "none"

LineAccepted(item) == FirstFailedRule(item) = "none"

LineRejected(item) == FirstFailedRule(item) # "none"

\* the rule a reason of an invalid line names
RuleOfReason(reason) ==
    CASE reason.text = "Producto {product_id} no existe en el catalogo" -> "existence"
      [] reason.text = "Cantidad debe ser mayor a 0" -> "quantity"
      [] reason.text = "Stock insuficiente. Solicitado: {quantity}, Disponible: {available_stock}" -> "stock"
      [] reason.text = "Precio incorrecto. Proporcionado: ${provided_price:.2f}, Actual: ${actual_price:.2f}" -> "price"
      [] OTHER -> "unknown"

\* product id and quantity of every entry of a list of lines
LinesOf(seq) ==
    [i \in DOMAIN seq |-> [product_id |-> seq[i].product_id, quantity |-> seq[i].quantity]]

\* the result of a validate_order call that runs from node `node` in state s
\* with no other call running
RECURSIVE RunFrom(_, _, _)
RunFrom(node, s, a) ==
    IF node = "END" THEN final_result(s)
    ELSE IF node = "except" THEN error_result(a.order_id)
    ELSE LET s2 == NodeResult(node, s) IN RunFrom(NodeNext(node, s2), s2, a)

RunAlone(a) == RunFrom("parse_order", initial_state(a), a)

TerminalNodes == {"process_order", "error_handler"}

\* ------------------------------------------------------------------- C11

\* C11: the approved flag of a result is true exactly when its status is
\* "approved": it is false in every rejected and every error result, and it is
\* false in the state of the workflow as long as the approve node
\* (process_order) has not run.
C11_ApprovedFlag ==
    /\ Returned => /\ result.approved <=> result.status = "approved"
                   /\ result.status \in {"rejected", "error"} => ~result.approved
    /\ state # None /\ "process_order" \notin Range(path) => ~state.approved

C11_Witness ==
    /\ Returned
    /\ result.status = "approved"
    /\ result.approved
    /\ path = <<"parse_order", "validate_customer", "validate_items",
                "check_credit", "process_order">>

\* ------------------------------------------------------------------- C12

\* C12: in every result of validate_order the errors list is empty exactly
\* when the order was approved: an approved result has no error and every
\* rejected result has at least one.
C12_ErrorsIffNotApproved ==
    Returned =>
        /\ result.errors = <<>> <=> result.approved
        /\ result.status = "approved" => Len(result.errors) = 0
        /\ result.status = "rejected" => Len(result.errors) >= 1

C12_Witness ==
    /\ Returned
    /\ fault = NoFault
    /\ args.customer_id = "CUST003"
    /\ result.status = "rejected"
    /\ Len(result.errors) = 1
    /\ result.errors[1].text = "Cliente {customer_id} existe pero esta inactivo"

\* ------------------------------------------------------------------- C13

\* C13: every line of validate_order_items whose product id is not in the
\* catalog appears in the invalid lines, with the reason that the product does
\* not exist in the catalog, and never in the validated lines, whatever its
\* quantity and price.
C13_UnknownProduct ==
    ItemsInvoked =>
        LET items == tool.items
            res == tool.result
        IN  \A i \in DOMAIN items :
                items[i].product_id \notin DOMAIN MOCK_PRODUCTS =>
                    LET pid == items[i].product_id IN
                    /\ \E j \in DOMAIN res.invalid_items :
                           res.invalid_items[j] =
                               [product_id |-> pid,
                                quantity |-> items[i].quantity,
                                reason |-> [text |-> "Producto {product_id} no existe en el catalogo",
                                            product_id |-> pid]]
                    /\ Cardinality({j \in DOMAIN res.invalid_items :
                                        res.invalid_items[j].product_id = pid})
                         = Cardinality({k \in DOMAIN items : items[k].product_id = pid})
                    /\ \A j \in DOMAIN res.validated_items :
                           res.validated_items[j].product_id # pid

C13_Witness ==
    /\ ItemsInvoked
    /\ tool.items = <<Line("PROD002", 5, 2500), Line("PROD999", 0, 0)>>
    /\ Len(tool.result.invalid_items) = 1
    /\ tool.result.invalid_items[1].product_id = "PROD999"
    /\ RuleOfReason(tool.result.invalid_items[1].reason) = "existence"

\* ------------------------------------------------------------------- C14

\* C14: the verdict of validate_order_items is valid exactly when the list of
\* invalid lines is empty and the list of validated lines is not: an empty
\* input is never valid and an input with a rejected line is never valid.
C14_ItemsVerdict ==
    ItemsInvoked =>
        LET items == tool.items
            res == tool.result
        IN  /\ res.valid <=> (res.invalid_items = <<>> /\ res.validated_items # <<>>)
            /\ items = <<>> => ~res.valid
            /\ (\E i \in DOMAIN items : LineRejected(items[i])) => ~res.valid
            /\ (items # <<>> /\ \A i \in DOMAIN items : LineAccepted(items[i])) => res.valid

C14_Witness ==
    /\ ItemsInvoked
    /\ tool.items = <<Line("PROD001", 2, 120000), Line("PROD005", 10, 12000)>>
    /\ Len(tool.result.validated_items) = 1
    /\ Len(tool.result.invalid_items) = 1
    /\ ~tool.result.valid

\* ------------------------------------------------------------------- C15

\* C15: for a non-empty input validate_order_items puts every line in exactly
\* one of the two lists: the validated and the invalid lines together are as
\* many as the input lines, the validated lines are the accepted input lines
\* and the invalid lines the rejected ones, each in input order.
C15_Partition ==
    ItemsInvoked /\ tool.items # <<>> =>
        LET items == tool.items
            res == tool.result
        IN  /\ Len(res.validated_items) + Len(res.invalid_items) = Len(items)
            /\ LinesOf(res.validated_items) = LinesOf(SelectSeq(items, LineAccepted))
            /\ LinesOf(res.invalid_items) = LinesOf(SelectSeq(items, LineRejected))

C15_Witness ==
    /\ ItemsInvoked
    /\ tool.items = <<LineNoPrice("PROD004", 31), LineNoPrice("PROD004", 30)>>
    /\ LinesOf(tool.result.invalid_items) = <<[product_id |-> "PROD004", quantity |-> 31]>>
    /\ LinesOf(tool.result.validated_items) = <<[product_id |-> "PROD004", quantity |-> 30]>>

\* ------------------------------------------------------------------- C16

\* C16: the reason stored for an invalid line is the one of the first rule the
\* line fails, in the order existence, quantity above zero, quantity within
\* stock, price match: an unknown product with quantity 0 is reported as not
\* existing, a known product with quantity 0 and a wrong price as an invalid
\* quantity, a known product above its stock with a wrong price as
\* insufficient stock.
C16_FirstFailingRule ==
    ItemsInvoked =>
        LET items == tool.items
            res == tool.result
            rejected == SelectSeq(items, LineRejected)
        IN  /\ Len(res.invalid_items) = Len(rejected)
            /\ \A j \in DOMAIN res.invalid_items :
                   j \in DOMAIN rejected =>
                       /\ RuleOfReason(res.invalid_items[j].reason) = FirstFailedRule(rejected[j])
                       /\ rejected[j] = Line("PROD999", 0, 0) =>
                              RuleOfReason(res.invalid_items[j].reason) = "existence"
                       /\ rejected[j] = Line("PROD001", 0, 0) =>
                              RuleOfReason(res.invalid_items[j].reason) = "quantity"
                       /\ rejected[j] = Line("PROD001", 51, 0) =>
                              RuleOfReason(res.invalid_items[j].reason) = "stock"

C16_Witness ==
    /\ ItemsInvoked
    /\ tool.items = <<Line("PROD001", 51, 0), Line("PROD001", 0, 0)>>
    /\ Len(tool.result.invalid_items) = 2
    /\ RuleOfReason(tool.result.invalid_items[1].reason) = "stock"
    /\ RuleOfReason(tool.result.invalid_items[2].reason) = "quantity"

\* ------------------------------------------------------------------- C17

\* C17: validate_customer_exists reports valid, exists and active all false
\* for an empty id and for an id the catalog does not hold; valid false,
\* exists true, active false for a customer whose status is not active; all
\* three true for an active customer; valid holds exactly when exists and
\* active both hold.
C17_CustomerVerdict ==
    CustomerInvoked =>
        LET c == tool.customer_id
            r == tool.result
            found == c # "" /\ c \in DOMAIN MOCK_CUSTOMERS
        IN  /\ ~found => ~r.valid /\ ~r.exists /\ ~r.active
            /\ found /\ MOCK_CUSTOMERS[c].status # "active" =>
                   ~r.valid /\ r.exists /\ ~r.active
            /\ found /\ MOCK_CUSTOMERS[c].status = "active" =>
                   r.valid /\ r.exists /\ r.active
            /\ r.valid <=> (r.exists /\ r.active)

C17_Witness ==
    /\ CustomerInvoked
    /\ tool.customer_id = "CUST003"
    /\ tool.result.exists
    /\ ~tool.result.active
    /\ ~tool.result.valid

\* ------------------------------------------------------------------- C18

\* C18: two validate_order calls running at the same time do not interfere:
\* under every interleaving of their node steps the catalog stays as it was
\* defined and each call returns the result it returns when it runs alone.
C18_NoInterference ==
    /\ MOCK_CUSTOMERS = CustomerTable
    /\ MOCK_PRODUCTS = ProductTable
    /\ Returned => result = RunAlone(args)
    /\ peer # None /\ peer.result # None => peer.result = RunAlone(peer.args)

C18_Witness ==
    /\ Returned
    /\ result.approved
    /\ args.customer_id = "CUST002"
    /\ peer # None
    /\ peer.overlap
    /\ peer.result # None
    /\ peer.result.approved
    /\ peer.args = args

\* ------------------------------------------------------------------- C19

\* C19: no step of validate_order changes the catalog: after any sequence of
\* calls, approvals included, the customer table and the product table are
\* what they were before the first call.
C19_CatalogFrame ==
    /\ MOCK_CUSTOMERS = CustomerTable
    /\ MOCK_PRODUCTS = ProductTable
    /\ \A c \in DOMAIN CustomerTable :
           MOCK_CUSTOMERS[c].current_balance = CustomerTable[c].current_balance
    /\ \A p \in DOMAIN ProductTable :
           MOCK_PRODUCTS[p].stock = ProductTable[p].stock

C19_Witness ==
    /\ Returned
    /\ result.approved
    /\ args.customer_id = "CUST004"
    /\ args.items = <<LineNoPrice("PROD004", 20)>>
    /\ MOCK_PRODUCTS["PROD004"].stock = 30
    /\ MOCK_CUSTOMERS["CUST004"].current_balance = 100000

\* ------------------------------------------------------------------- C20

\* the nodes a run has entered: none twice, parse_order first, none after a
\* terminal node, at most four before the terminal one
StepsBounded ==
    /\ \A i, j \in DOMAIN path : i # j => path[i] # path[j]
    /\ path # <<>> => path[1] = "parse_order"
    /\ pc \in Nodes =>
           /\ pc \notin Range(path)
           /\ Range(path) \cap TerminalNodes = {}
           /\ Len(path) <= 4
    /\ pc = "END" =>
           /\ path # <<>>
           /\ path[Len(path)] \in TerminalNodes
           /\ Cardinality({i \in DOMAIN path : path[i] \in TerminalNodes}) = 1
           /\ Len(path) - 1 <= 4
    /\ pc \in Nodes \cup {"END", "idle"}

\* C20: every workflow run terminates: a call that has entered the graph
\* reaches the end of the graph and returns; on the way no node is entered
\* twice, no node is entered after a terminal one, and the run ends having
\* entered exactly one of the terminal nodes process_order and error_handler,
\* as its last node, after at most four earlier nodes.
C20_Terminates ==
    /\ []StepsBounded
    /\ (pc = "parse_order") ~> (pc = "END" /\ path[Len(path)] \in TerminalNodes)
    /\ (pc = "END") ~> Returned

C20_Witness ==
    /\ pc = "END"
    /\ path = <<"parse_order", "validate_customer", "validate_items",
                "check_credit", "error_handler">>

\* --------------------------------------------- notions of the claims C21..C30

\* the entries parse_order writes for the requirements order a violates
StructuralErrors(a) ==
    (IF a.order_id = "" THEN <<[text |-> "ID de orden no proporcionado"]>> ELSE <<>>)
    \o (IF a.customer_id = "" THEN <<[text |-> "ID de cliente no proporcionado"]>> ELSE <<>>)
    \o (IF a.items = <<>> THEN <<[text |-> "No se proporcionaron items en la orden"]>> ELSE <<>>)

\* how many of the three structural requirements order a violates
ViolationCount(a) ==
    (IF a.order_id = "" THEN 1 ELSE 0) + (IF a.customer_id = "" THEN 1 ELSE 0)
    + (IF a.items = <<>> THEN 1 ELSE 0)

\* how many of the first i lines are rejected: the place of line i among the
\* invalid lines when it is rejected itself
RejectedUpTo(items, i) == Cardinality({k \in 1..i : LineRejected(items[k])})

\* the absolute difference of two amounts, in cents
AbsDiff(x, y) == IF x >= y THEN x - y ELSE y - x

\* a line is rejected under a price tolerance of exactly one cent: it fails
\* existence, quantity or stock, or asserts a price more than one cent off
RejectedWithCentTolerance(item) ==
    \/ item.product_id \notin DOMAIN MOCK_PRODUCTS
    \/ item.quantity <= 0
    \/ item.quantity > MOCK_PRODUCTS[item.product_id].stock
    \/ /\ "unit_price" \in DOMAIN item
       /\ AbsDiff(item.unit_price, MOCK_PRODUCTS[item.product_id].price) > 1

AcceptedWithCentTolerance(item) == ~RejectedWithCentTolerance(item)

\* ------------------------------------------------------------------- C21

\* C21: when the credit check has run, its verdict reports available_credit =
\* credit_limit - current_balance of the customer and required_amount = the
\* amount passed in; when available_credit < required_amount the order is
\* rejected, the result keeps the item total as total_amount and the credit
\* error states the deficit required_amount - available_credit (CUST002 with
\* 5 x PROD001: total 6000.00, deficit 5500.00).
C21_CreditDeficit ==
    Completed /\ state.credit_validation # None =>
        LET cv == state.credit_validation
            c == MOCK_CUSTOMERS[args.customer_id]
        IN  /\ cv.available_credit = c.credit_limit - c.current_balance
            /\ cv.required_amount = state.items_validation.total_amount
            /\ cv.available_credit < cv.required_amount =>
                   /\ result.status = "rejected"
                   /\ result.total_amount = CatalogTotal(args.items)
                   /\ result.total_amount = cv.required_amount
                   /\ Len(result.errors) = 1
                   /\ result.errors[1].text \in CreditErrorTexts
                   /\ result.errors[1].deficit = cv.required_amount - cv.available_credit
            /\ (args.customer_id = "CUST002"
                /\ args.items = <<Line("PROD001", 5, 120000)>>) =>
                   /\ result.total_amount = 600000
                   /\ result.errors[1].deficit = 550000

C21_Witness ==
    /\ Completed
    /\ args.customer_id = "CUST002"
    /\ args.items = <<Line("PROD001", 5, 120000)>>
    /\ result.status = "rejected"
    /\ state.credit_validation # None
    /\ state.credit_validation.available_credit = 50000
    /\ state.credit_validation.required_amount = 600000
    /\ result.errors[1].deficit = 550000

\* ------------------------------------------------------------------- C22

\* C22: in a rejected result validation_details has the entries customer,
\* items, credit and summary, and each verdict whose check was not run is
\* rendered as an empty record, not as a missing or null value.
C22_UnrunVerdictsEmpty ==
    Completed /\ result.status = "rejected" =>
        LET vd == result.validation_details IN
        /\ {"customer", "items", "credit", "summary"} \subseteq DOMAIN vd
        /\ state.customer_validation = None => vd.customer = EmptyDict
        /\ state.items_validation = None => vd.items = EmptyDict
        /\ state.credit_validation = None => vd.credit = EmptyDict

\* ------------------------------------------------------------------- C23

\* C23: the customer verdict carries a copy of the customer record and nothing
\* keeps a reference into the catalog after the call returns: a caller that
\* modifies the customer_data of a returned result changes neither the catalog
\* nor the result of a later validate_order call with the same arguments.
C23_NoReferenceKept ==
    /\ MOCK_CUSTOMERS = CustomerTable
    /\ (Returned /\ ref # None /\ ref.later /\ ref.args = args) =>
           result.status = ref.result.status

\* ------------------------------------------------------------------- C24

\* C24: when the item verdict is invalid, the item step appends to errors
\* first the verdict's top-level message and then one entry "Item <product
\* id>: <reason>" per invalid line, in input order; a run rejected at the item
\* step ends with exactly 1 + (number of invalid lines) errors.
C24_ItemErrors ==
    (Completed /\ state.items_validation # None /\ ~state.items_validation.valid) =>
        LET iv == state.items_validation
            rejected == SelectSeq(args.items, LineRejected)
        IN  /\ Len(iv.invalid_items) = Len(rejected)
            /\ Len(result.errors) = 1 + Len(rejected)
            /\ result.errors[1] = iv.message
            /\ result.errors[1].text = "Validacion fallida: {n} items invalidos de {m} totales"
            /\ \A j \in 1..Len(rejected) :
                   result.errors[1 + j] =
                       [text |-> "Item {product_id}: {reason}",
                        product_id |-> rejected[j].product_id,
                        reason |-> iv.invalid_items[j].reason]
            /\ result.status = "rejected"

C24_Witness ==
    /\ Completed
    /\ args.customer_id = "CUST001"
    /\ args.items = <<Line("PROD999", 1, 10000), Line("PROD005", 10, 12000)>>
    /\ Len(result.errors) = 3
    /\ result.errors[2].product_id = "PROD999"
    /\ result.errors[3].product_id = "PROD005"
    /\ RuleOfReason(result.errors[3].reason) = "stock"

\* ------------------------------------------------------------------- C25

\* C25: whenever the credit check runs inside the workflow, the amount it
\* checks is the total the item check computed in the same run: the credit
\* verdict's required_amount equals the item verdict's total_amount and the
\* result's total_amount, which is the catalog total whatever prices the
\* caller asserted.
C25_CreditChecksItemTotal ==
    Completed /\ state.credit_validation # None =>
        /\ state.credit_validation.required_amount = state.items_validation.total_amount
        /\ state.credit_validation.required_amount = result.total_amount
        /\ state.credit_validation.required_amount = CatalogTotal(args.items)

C25_Witness ==
    /\ Completed
    /\ args.items = <<Line("PROD001", 1, 120001), LineNoPrice("PROD002", 20)>>
    /\ state.credit_validation # None
    /\ state.credit_validation.required_amount = 170000

\* ------------------------------------------------------------------- C26

\* C26: if the item verdict is invalid the credit check is never invoked in
\* that run: the credit verdict slot stays unset and errors holds no credit
\* message; the credit check is entered only after the customer verdict and
\* the item verdict were both valid, in that order.
C26_ItemShortCircuit ==
    /\ (state # None /\ state.items_validation # None
           /\ ~VerdictValid(state.items_validation)) =>
           /\ "check_credit" \notin Range(path)
           /\ pc \notin {"check_credit", "process_order"}
           /\ state.credit_validation = None
           /\ \A i \in DOMAIN state.errors : state.errors[i].text \notin CreditErrorTexts
           /\ Returned => \A i \in DOMAIN result.errors :
                              result.errors[i].text \notin CreditErrorTexts
    /\ (state # None /\ (pc = "check_credit" \/ "check_credit" \in Range(path))) =>
           /\ SubSeq(path, 1, 3) = <<"parse_order", "validate_customer", "validate_items">>
           /\ VerdictValid(state.customer_validation)
           /\ VerdictValid(state.items_validation)

C26_Witness ==
    /\ Completed
    /\ fault = NoFault
    /\ args.customer_id = "CUST002"
    /\ args.items = <<Line("PROD005", 10, 12000)>>
    /\ state.items_validation # None
    /\ ~state.items_validation.valid
    /\ state.credit_validation = None
    /\ path = <<"parse_order", "validate_customer", "validate_items", "error_handler">>

\* ------------------------------------------------------------------- C27

\* C27: if the parse step finds a structural violation no validation rule is
\* invoked in that run: the run goes from parse directly to the reject
\* handler, the three verdict slots stay unset and errors holds only the
\* structural errors (an empty order_id with an unknown customer id yields no
\* customer error).
C27_ParseShortCircuit ==
    (args # None /\ state # None /\ ~ParseOk(args)) =>
        /\ Range(path) \subseteq {"parse_order", "error_handler"}
        /\ pc \notin {"validate_customer", "validate_items", "check_credit",
                      "process_order"}
        /\ state.customer_validation = None
        /\ state.items_validation = None
        /\ state.credit_validation = None
        /\ "parse_order" \in Range(path) /\ ~NodeRaises("parse_order") =>
               state.errors = StructuralErrors(args)
        /\ Returned => result.errors = StructuralErrors(args)

C27_Witness ==
    /\ Completed
    /\ fault = NoFault
    /\ args.order_id = ""
    /\ args.customer_id = "CUST999"
    /\ args.items # <<>>
    /\ path = <<"parse_order", "error_handler">>
    /\ result.errors = <<[text |-> "ID de orden no proporcionado"]>>

\* ------------------------------------------------------------------- C28

\* C28: the parse step checks order id, customer id and item list
\* independently and records one error per violated requirement: an order
\* violating k of the three is rejected with exactly k errors (3 when
\* order_id, customer_id and items are all empty).
C28_OneErrorPerViolation ==
    Completed /\ ~ParseOk(args) =>
        /\ result.status = "rejected"
        /\ Len(result.errors) = ViolationCount(args)
        /\ result.errors = StructuralErrors(args)
        /\ result.message.error_count = ViolationCount(args)

C28_Witness ==
    /\ Completed
    /\ args = [order_id |-> "", customer_id |-> "", items |-> <<>>]
    /\ result.status = "rejected"
    /\ Len(result.errors) = 3

\* ------------------------------------------------------------------- C29

\* C29: for a line whose product exists and whose quantity is positive the
\* stock rule rejects the line exactly when quantity > available stock: a
\* quantity equal to the stock is not rejected for stock, a product with stock
\* 0 is rejected for every positive quantity, and the invalid record carries
\* the requested quantity and the available stock.
C29_StockRule ==
    ItemsInvoked =>
        \A i \in DOMAIN tool.items :
            LET line == tool.items[i] IN
            (line.product_id \in DOMAIN MOCK_PRODUCTS /\ line.quantity > 0) =>
                LET stock == MOCK_PRODUCTS[line.product_id].stock
                    j == RejectedUpTo(tool.items, i)
                    inv == tool.result.invalid_items
                IN  IF line.quantity > stock
                    THEN /\ j \in DOMAIN inv
                         /\ inv[j] =
                              [product_id |-> line.product_id,
                               quantity |-> line.quantity,
                               available_stock |-> stock,
                               reason |-> [text |-> "Stock insuficiente. Solicitado: {quantity}, Disponible: {available_stock}",
                                           quantity |-> line.quantity,
                                           available_stock |-> stock]]
                    ELSE /\ \A k \in DOMAIN inv :
                                (inv[k].product_id = line.product_id
                                 /\ inv[k].quantity = line.quantity) =>
                                    RuleOfReason(inv[k].reason) # "stock"
                         /\ "unit_price" \notin DOMAIN line =>
                                \E k \in DOMAIN tool.result.validated_items :
                                    /\ tool.result.validated_items[k].product_id = line.product_id
                                    /\ tool.result.validated_items[k].quantity = line.quantity

C29_Witness ==
    /\ ItemsInvoked
    /\ tool.items = <<LineNoPrice("PROD004", 30), LineNoPrice("PROD005", 1)>>
    /\ Len(tool.result.validated_items) = 1
    /\ tool.result.validated_items[1].quantity = 30
    /\ Len(tool.result.invalid_items) = 1
    /\ tool.result.invalid_items[1].available_stock = 0
    /\ tool.result.invalid_items[1].quantity = 1

\* ------------------------------------------------------------------- C30

\* C30: for a line that passes the existence, quantity and stock rules the
\* price rule rejects the line exactly when a unit price was supplied and
\* differs from the catalog price by more than one cent; a line without a
\* supplied price, or with a price within one cent (a difference of exactly
\* 0.01 included), is validated and charged at the catalog price.
C30_PriceRule ==
    ItemsInvoked =>
        LET items == tool.items
            res == tool.result
        IN  /\ LinesOf(res.invalid_items) = LinesOf(SelectSeq(items, RejectedWithCentTolerance))
            /\ LinesOf(res.validated_items) = LinesOf(SelectSeq(items, AcceptedWithCentTolerance))
            /\ \A k \in DOMAIN res.validated_items :
                   res.validated_items[k].unit_price
                       = MOCK_PRODUCTS[res.validated_items[k].product_id].price

\* --------------------------------------------- notions of the claims C31..C38

\* the requested quantity of product_id summed over the lines of an order
RECURSIVE QuantityRequested(_, _)
QuantityRequested(items, product_id) ==
    IF items = <<>> THEN 0
    ELSE (IF Head(items).product_id = product_id THEN Head(items).quantity ELSE 0)
         + QuantityRequested(Tail(items), product_id)

\* the lines of some product together ask for more than its stock
TogetherOverStock(items) ==
    \E p \in DOMAIN MOCK_PRODUCTS : QuantityRequested(items, p) > MOCK_PRODUCTS[p].stock

\* the templates of the error entries the customer step writes
CustomerErrorTexts ==
    {"ID de cliente no proporcionado",
     "Cliente {customer_id} no existe en el sistema",
     "Cliente {customer_id} existe pero esta inactivo",
     "Cliente {customer_id} valido y activo",
     "Error al validar cliente: {e}"}

\* the step an error entry of a run with arguments a was written by
StepOfError(e, a) ==
    IF ~ParseOk(a) /\ e \in Range(StructuralErrors(a)) THEN "parse"
    ELSE IF e.text \in CustomerErrorTexts THEN "customer"
    ELSE IF e.text \in ItemErrorTexts THEN "items"
    ELSE IF e.text \in CreditErrorTexts THEN "credit"
    ELSE "unknown"

\* the steps that wrote the entries of a list of errors
StepsOf(errors, a) == {StepOfError(errors[i], a) : i \in DOMAIN errors}

\* the first step of the run in state s that failed
FirstFailingStep(s, a) ==
    IF ~ParseOk(a) THEN "parse"
    ELSE IF ~VerdictValid(s.customer_validation) THEN "customer"
    ELSE IF ~VerdictValid(s.items_validation) THEN "items"
    ELSE "credit"

\* sequence p is an initial part of sequence q
IsPrefix(p, q) == Len(p) <= Len(q) /\ SubSeq(q, 1, Len(p)) = p

\* ------------------------------------------------------------------- C31

\* C31: stock is checked for each line on its own and never summed per
\* product: when every line of an input passes the four rules on its own, all
\* lines are validated and the verdict is valid, also when two lines of the
\* same product together ask for more than its stock.
C31_StockPerLine ==
    (ItemsInvoked /\ tool.items # <<>>
        /\ \A i \in DOMAIN tool.items : LineAccepted(tool.items[i])) =>
        /\ tool.result.valid
        /\ tool.result.invalid_items = <<>>
        /\ LinesOf(tool.result.validated_items) = LinesOf(tool.items)

C31_Witness ==
    /\ ItemsInvoked
    /\ tool.items = <<LineNoPrice("PROD004", 20), LineNoPrice("PROD004", 20)>>
    /\ TogetherOverStock(tool.items)
    /\ tool.result.valid
    /\ Len(tool.result.validated_items) = 2

\* ------------------------------------------------------------------- C32

\* C32: in every approved result the summary's items_count equals the number
\* of validated lines of the item verdict, which equals the number of lines of
\* the input order, and the summary's total_amount equals the result's
\* total_amount.
C32_ApprovedSummary ==
    Completed /\ result.status = "approved" =>
        LET summary == result.validation_details.summary IN
        /\ summary.items_count = Len(result.validation_details.items.validated_items)
        /\ summary.items_count = Len(args.items)
        /\ summary.total_amount = result.total_amount

C32_Witness ==
    /\ Completed
    /\ result.status = "approved"
    /\ Len(args.items) = 2
    /\ result.validation_details.summary.items_count = 2
    /\ result.validation_details.summary.total_amount = 252500

\* ------------------------------------------------------------------- C33

\* C33: in every rejected result the error count cited in the message and the
\* summary's error_count both equal the length of the result's errors list,
\* and the errors entry of validation_details is the same sequence as the
\* result's errors.
C33_RejectedCounts ==
    Completed /\ result.status = "rejected" =>
        /\ result.message.error_count = Len(result.errors)
        /\ result.validation_details.summary.error_count = Len(result.errors)
        /\ result.validation_details.errors = result.errors

C33_Witness ==
    /\ Completed
    /\ fault = [kind |-> "tool", at |-> "validate_items"]
    /\ result.status = "rejected"
    /\ Len(result.errors) = 1
    /\ result.message.error_count = 1
    /\ result.validation_details.errors[1].text = "Error al validar items: {e}"

\* ------------------------------------------------------------------- C34

\* the errors of a run were all written by one step, the first one that failed
ErrorsFromOneStep ==
    /\ (args # None /\ state # None) => Cardinality(StepsOf(state.errors, args)) <= 1
    /\ (Completed /\ result.status = "rejected") =>
           StepsOf(result.errors, args) = {FirstFailingStep(state, args)}

\* a step after the parse step keeps the errors it found and adds to them
ErrorsAppendOnly ==
    (pc \in Nodes \ {"parse_order"} /\ state # None /\ state' # None) =>
        IsPrefix(state.errors, state'.errors)

\* C34: all errors of a rejected result come from exactly one step, the first
\* failing one among parse, customer check, item check and credit check; after
\* the parse step errors is only appended to, and no run holds errors of two
\* different steps.
C34_SingleErrorSource ==
    []ErrorsFromOneStep /\ [][ErrorsAppendOnly]_vars

C34_Witness ==
    /\ Completed
    /\ fault = NoFault
    /\ ParseOk(args)
    /\ args.customer_id = "CUST002"
    /\ args.items = <<Line("PROD001", 5, 120000)>>
    /\ result.status = "rejected"
    /\ StepsOf(result.errors, args) = {"credit"}

\* ------------------------------------------------------------------- C35

\* C35: the total_amount of a rejected result is 0 when the run was rejected
\* at the parse or the customer step; when it was rejected at the item step it
\* is the sum of catalog price x quantity over the lines that did validate, so
\* a rejected order with some valid lines reports a non-zero partial total.
C35_RejectedTotal ==
    Completed /\ result.status = "rejected" =>
        /\ state.items_validation = None => result.total_amount = 0
        /\ (state.items_validation # None /\ ~state.items_validation.valid) =>
               /\ result.total_amount = CatalogTotal(SelectSeq(args.items, LineAccepted))
               /\ (\E i \in DOMAIN args.items : LineAccepted(args.items[i])) =>
                      result.total_amount > 0

C35_Witness ==
    /\ Completed
    /\ result.status = "rejected"
    /\ args.items = <<Line("PROD001", 2, 120000), Line("PROD005", 10, 12000)>>
    /\ state.items_validation # None
    /\ result.total_amount = 240000

\* ------------------------------------------------------------------- C36

\* C36: every approved result has a total_amount greater than 0 and not
\* greater than the customer's available credit (credit_limit -
\* current_balance) in the catalog.
C36_ApprovedWithinCredit ==
    Completed /\ result.status = "approved" =>
        LET c == MOCK_CUSTOMERS[args.customer_id] IN
        /\ result.total_amount > 0
        /\ result.total_amount <= c.credit_limit - c.current_balance

C36_Witness ==
    /\ Completed
    /\ result.status = "approved"
    /\ args.customer_id = "CUST002"
    /\ result.total_amount = 50000

\* ------------------------------------------------------------------- C37

\* C37: the credit check's "customer not found" outcome is not reached inside
\* the workflow: whenever a credit verdict exists the customer is in the
\* catalog and the verdict holds the customer's limit and balance.
C37_CreditCustomerFound ==
    (args # None /\ state # None /\ state.credit_validation # None) =>
        LET cv == state.credit_validation IN
        /\ args.customer_id \in DOMAIN MOCK_CUSTOMERS
        /\ cv.message.text # "Cliente {customer_id} no encontrado"
        /\ cv.credit_limit = MOCK_CUSTOMERS[args.customer_id].credit_limit
        /\ cv.current_balance = MOCK_CUSTOMERS[args.customer_id].current_balance

C37_Witness ==
    /\ Completed
    /\ args.customer_id = "CUST005"
    /\ state.credit_validation # None
    /\ state.credit_validation.credit_limit = 2000000
    /\ state.credit_validation.current_balance = 1500000

\* ------------------------------------------------------------------- C38

\* C38: the warnings list of every result of validate_order is empty, and no
\* step of the workflow appends a warning.
C38_NoWarnings ==
    /\ state # None => state.warnings = <<>>
    /\ Returned => result.warnings = <<>>
    /\ (Completed /\ result.status = "rejected") =>
           result.validation_details.warnings = <<>>

C38_Witness ==
    /\ Crashed
    /\ result.status = "error"
    /\ result.errors # <<>>
    /\ result.warnings = <<>>

====
